---- MODULE Spec2Model ----
(***************************************************************************)
(* A model of django-tagging's tag utilities (tagging/utils.py) and of    *)
(* the TagField descriptor (tagging/fields.py).                            *)
(*                                                                         *)
(* Strings are sequences of character codes (Python code points), so that  *)
(* the lexicographic order of sorted() is the order of the codes.          *)
(***************************************************************************)
EXTENDS Integers, Sequences, FiniteSets, TLC

VARIABLES
    mode,          \* which API is being exercised: "text", "cloud" or "field"
    pc,            \* position of the caller within the exercised API
    input,         \* text: the string handed to parse_tag_input
    parsed,        \* text: parse_tag_input(input)
    rendered,      \* text: edit_string_for_tags of the parsed names
    reparsed,      \* text: parse_tag_input(rendered)
    tags,          \* cloud: the tags' counts, in order
    steps,         \* cloud: the steps argument
    distribution,  \* cloud: the distribution argument
    outcome,       \* cloud: what calculate_cloud did
    FORCE_LOWERCASE_TAGS, \* field: tagging.settings.FORCE_LOWERCASE_TAGS
    pk,            \* field: instance.pk (None or set)
    cache,         \* field: instance._tags_cache (absent reads as None)
    attr,          \* field: instance.__dict__['tags']
    persisted,     \* field: the names of the instance's tags in the database
    op,            \* field: the last operation performed on the instance
    lastAccess     \* field: the last read, assignment or clearing, if any

vars == <<mode, pc, input, parsed, rendered, reparsed, tags, steps,
          distribution, outcome, FORCE_LOWERCASE_TAGS, pk, cache, attr,
          persisted, op, lastAccess>>

textVars == <<input, parsed, rendered, reparsed>>
cloudVars == <<tags, steps, distribution, outcome>>
fieldVars == <<FORCE_LOWERCASE_TAGS, pk, cache, attr, persisted, op,
               lastAccess>>

----------------------------------------------------------------------------
(* Characters *)

SPACE == 32
COMMA == 44
QUOTE == 34

\* The characters str.strip() removes (str.isspace, ASCII range).
Whitespace == {9, 10, 11, 12, 13, 28, 29, 30, 31, 32}

\* Python's None, where a string may stand: no string holds the code -1.
None == <<-1>>

\* Bounds of the text model: tab, space, double quote, comma, 'a'.
Alphabet == {9, 32, 34, 44, 97}
MaxLen == 6

Strings(S, n) == UNION {[1..k -> S] : k \in 0..n}

Min(S) == CHOOSE x \in S : \A y \in S : x <= y
Max(S) == CHOOSE x \in S : \A y \in S : x >= y
Range(s) == {s[k] : k \in 1..Len(s)}

\* c in s
Contains(s, c) == \E k \in 1..Len(s) : s[k] = c

\* a < b for Python strings
LexLess(a, b) ==
    \E k \in 1..(Len(a) + 1) :
        /\ k <= Len(b)
        /\ \A j \in 1..(k - 1) : a[j] = b[j]
        /\ (k = Len(a) + 1 \/ a[k] < b[k])

----------------------------------------------------------------------------
(* tagging/utils.py: split_strip *)

\* str.strip()
Strip(s) ==
    LET keep == {k \in 1..Len(s) : s[k] \notin Whitespace}
    IN  IF keep = {} THEN <<>> ELSE SubSeq(s, Min(keep), Max(keep))

\* str.split(delimiter)
RECURSIVE Split(_, _)
Split(s, delimiter) ==
    LET at == {k \in 1..Len(s) : s[k] = delimiter}
    IN  IF at = {} THEN <<s>>
        ELSE <<SubSeq(s, 1, Min(at) - 1)>>
                 \o Split(SubSeq(s, Min(at) + 1, Len(s)), delimiter)

\* Mutant: the empty words are kept.
split_strip_keep_empty(input_, delimiter) ==
    LET pieces == Split(input_, delimiter)
    IN  [k \in 1..Len(pieces) |-> Strip(pieces[k])]

\* Mutant: splits on every whitespace character, as str.split() does.
RECURSIVE split_strip_whitespace(_, _)
split_strip_whitespace(input_, delimiter) ==
    LET at == {k \in 1..Len(input_) :
                  input_[k] = delimiter
                  \/ (delimiter = SPACE /\ input_[k] \in Whitespace)}
        head == IF at = {} THEN input_ ELSE SubSeq(input_, 1, Min(at) - 1)
        rest == IF at = {} THEN <<>>
                ELSE split_strip_whitespace(
                         SubSeq(input_, Min(at) + 1, Len(input_)), delimiter)
    IN  (IF Strip(head) = <<>> THEN <<>> ELSE <<Strip(head)>>) \o rest

split_strip(input_, delimiter) ==
    LET pieces == Split(input_, delimiter)
        words == [k \in 1..Len(pieces) |-> Strip(pieces[k])]
    IN  SelectSeq(words, LAMBDA w : w # <<>>)

\* sorted(set(words))
RECURSIVE SortSet(_)
SortSet(S) ==
    IF S = {} THEN <<>>
    ELSE LET least == CHOOSE x \in S : \A y \in S \ {x} : LexLess(x, y)
         IN  <<least>> \o SortSet(S \ {least})

sorted_set(words) == SortSet(Range(words))

----------------------------------------------------------------------------
(* tagging/utils.py: parse_tag_input *)

\* The locals of parse_tag_input before the scan.
ScanStart ==
    [words |-> <<>>, buffer |-> <<>>, to_be_split |-> <<>>,
     saw_loose_comma |-> FALSE, open_quote |-> FALSE]

\* Mutant: the quoted word is not stripped.
QuotedWordRaw(buffer) == buffer

\* word := ''.join(buffer).strip()
QuotedWord(buffer) == Strip(buffer)

\* Mutant: a comma in an unterminated quote is not seen.
StopIterationKeep(st) ==
    IF st.buffer # <<>>
    THEN [st EXCEPT !.to_be_split = Append(@, st.buffer)]
    ELSE st

\* except StopIteration
StopIteration(st) ==
    IF st.buffer # <<>>
    THEN [st EXCEPT
            !.saw_loose_comma =
                @ \/ (st.open_quote /\ Contains(st.buffer, COMMA)),
            !.to_be_split = Append(@, st.buffer)]
    ELSE st

\* The while loop: ScanLoose reads a character outside a quote, ScanQuote
\* the characters after an opening quote up to the matching quote.
RECURSIVE ScanLoose(_, _, _)
RECURSIVE ScanQuote(_, _, _)
ScanLoose(input_, i, st) ==
    IF i > Len(input_) THEN StopIteration(st)
    ELSE IF input_[i] = QUOTE
    THEN ScanQuote(input_, i + 1,
             [st EXCEPT
                !.to_be_split =
                    IF st.buffer # <<>> THEN Append(@, st.buffer) ELSE @,
                !.buffer = <<>>,
                !.open_quote = TRUE])
    ELSE ScanLoose(input_, i + 1,
             [st EXCEPT
                !.saw_loose_comma = @ \/ input_[i] = COMMA,
                !.buffer = Append(@, input_[i])])

ScanQuote(input_, i, st) ==
    IF i > Len(input_) THEN StopIteration(st)
    ELSE IF input_[i] # QUOTE
    THEN ScanQuote(input_, i + 1, [st EXCEPT !.buffer = Append(@, input_[i])])
    ELSE ScanLoose(input_, i + 1,
             [st EXCEPT
                !.words =
                    IF st.buffer # <<>> /\ QuotedWord(st.buffer) # <<>>
                    THEN Append(@, QuotedWord(st.buffer)) ELSE @,
                !.buffer = <<>>,
                !.open_quote = FALSE])

\* Mutant: the unquoted sections are always split on spaces.
DelimiterSpace(saw_loose_comma) == SPACE

\* delimiter = ',' if saw_loose_comma else ' '
Delimiter(saw_loose_comma) == IF saw_loose_comma THEN COMMA ELSE SPACE

\* for chunk in to_be_split: words.extend(split_strip(chunk, delimiter))
RECURSIVE ExtendWords(_, _, _)
ExtendWords(words, to_be_split, delimiter) ==
    IF to_be_split = <<>> THEN words
    ELSE ExtendWords(words \o split_strip(Head(to_be_split), delimiter),
                     Tail(to_be_split), delimiter)

parse_tag_input(input_) ==
    IF input_ = None \/ input_ = <<>> THEN <<>>
    ELSE IF ~Contains(input_, COMMA) /\ ~Contains(input_, QUOTE)
    THEN sorted_set(split_strip(input_, SPACE))
    ELSE LET st == ScanLoose(input_, 1, ScanStart)
         IN  sorted_set(ExtendWords(st.words, st.to_be_split,
                                    Delimiter(st.saw_loose_comma)))

----------------------------------------------------------------------------
(* tagging/utils.py: edit_string_for_tags *)

\* f'"{name}"'
Quoted(name) == <<QUOTE>> \o name \o <<QUOTE>>

\* The for loop over tags: the names to join and use_commas.
RECURSIVE EditLoop(_, _, _)
EditLoop(tags_, names, use_commas) ==
    IF tags_ = <<>> THEN [names |-> names, use_commas |-> use_commas]
    ELSE LET name == Head(tags_)
         IN  IF Contains(name, COMMA)
             THEN EditLoop(Tail(tags_), Append(names, Quoted(name)), use_commas)
             ELSE EditLoop(Tail(tags_), Append(names, name),
                           use_commas \/ Contains(name, SPACE))

\* glue.join(names)
RECURSIVE Join(_, _)
Join(glue, names) ==
    IF names = <<>> THEN <<>>
    ELSE IF Len(names) = 1 THEN names[1]
    ELSE names[1] \o glue \o Join(glue, Tail(names))

\* Mutant: a single name with spaces is not enclosed in quotes.
EncloseSingleNever(names, use_commas) == FALSE

\* len(names) == 1 and use_commas
EncloseSingle(names, use_commas) == Len(names) = 1 /\ use_commas

edit_string_for_tags(tags_) ==
    LET loop == EditLoop(tags_, <<>>, FALSE)
        glue == IF loop.use_commas THEN <<COMMA, SPACE>> ELSE <<SPACE>>
        result == Join(glue, loop.names)
    IN  IF EncloseSingle(loop.names, loop.use_commas)
        THEN Quoted(result) ELSE result

----------------------------------------------------------------------------
(* tagging/utils.py: calculate_cloud.                                      *)
(* The float arithmetic is modelled exactly: a threshold is kept as its    *)
(* numerator over the denominator steps, and a logarithmic weight          *)
(* ln(count) * max_weight / ln(max_weight) is compared with a threshold    *)
(* t / steps by comparing count^(max_weight * steps) with max_weight^t.    *)
(* Within the bounds below the exact comparisons agree with the rounded    *)
(* ones of the code; rounding is outside the model.                        *)

LOGARITHMIC == 1
LINEAR == 2

\* Natural numbers of any size, as little-endian digits in base 10000.
Big(n) == IF n = 0 THEN <<>> ELSE <<n>>

RECURSIVE BigTimes(_, _, _)
BigTimes(digits, k, carry) ==
    IF digits = <<>> THEN Big(carry)
    ELSE LET v == Head(digits) * k + carry
         IN  <<v % 10000>> \o BigTimes(Tail(digits), k, v \div 10000)

RECURSIVE BigPower(_, _)
BigPower(base, exponent) ==
    IF exponent = 0 THEN <<1>>
    ELSE BigTimes(BigPower(base, exponent - 1), base, 0)

BigLeq(x, y) ==
    \/ Len(x) < Len(y)
    \/ /\ Len(x) = Len(y)
       /\ \/ x = y
          \/ \E k \in 1..Len(x) :
                 /\ x[k] < y[k]
                 /\ \A j \in (k + 1)..Len(x) : x[j] = y[j]

\* The thresholds, each multiplied by steps.
_calculate_thresholds(min_weight, max_weight, steps_) ==
    [i \in 1..steps_ |-> min_weight * steps_ + i * (max_weight - min_weight)]

\* The weight as the count itself, as the logarithmic weight of a count,
\* or the error raised.
_calculate_tag_weight(weight, max_weight, distribution_) ==
    IF distribution_ = LINEAR \/ max_weight = 1
    THEN [kind |-> "count", message |-> "", value |-> weight]
    ELSE IF distribution_ = LOGARITHMIC
    THEN IF weight <= 0
         THEN \* math.log(weight) raises
              [kind |-> "ValueError", message |-> "math domain error",
               value |-> weight]
         ELSE [kind |-> "log", message |-> "", value |-> weight]
    ELSE [kind |-> "ValueError",
          message |-> "Invalid distribution algorithm specified",
          value |-> distribution_]

\* tag_weight <= thresholds[i], threshold being thresholds[i] * steps
WeightLeq(tag_weight, max_weight, steps_, threshold) ==
    IF tag_weight.kind = "count"
    THEN tag_weight.value * steps_ <= threshold
    ELSE \/ max_weight * steps_ <= threshold
         \/ BigLeq(BigPower(tag_weight.value, max_weight * steps_),
                   BigPower(max_weight, threshold))

\* for i in range(steps): the font_size set, 0 standing for not set.
RECURSIVE FontLoop(_, _, _, _, _, _)
FontLoop(i, font_size, tag_weight, max_weight, steps_, thresholds) ==
    IF i >= steps_ THEN font_size
    ELSE FontLoop(i + 1,
             IF font_size = 0
                /\ WeightLeq(tag_weight, max_weight, steps_, thresholds[i + 1])
             THEN i + 1 ELSE font_size,
             tag_weight, max_weight, steps_, thresholds)

\* for tag in tags: the font sizes set so far; an error ends the call.
RECURSIVE TagLoop(_, _, _, _, _)
TagLoop(counts, done, max_weight, steps_, distribution_) ==
    IF done = Len(counts)
    THEN [status |-> "ok", message |-> "", value |-> 0, font_size |-> <<>>]
    ELSE LET tag_weight == _calculate_tag_weight(
                               counts[done + 1], max_weight, distribution_)
         IN  IF tag_weight.kind = "ValueError"
             THEN [status |-> "ValueError", message |-> tag_weight.message,
                   value |-> tag_weight.value,
                   font_size |-> [k \in 1..(Len(counts) - done) |-> 0]]
             ELSE LET rest == TagLoop(counts, done + 1, max_weight, steps_,
                                      distribution_)
                      size == FontLoop(0, 0, tag_weight, max_weight, steps_,
                                  _calculate_thresholds(Min(Range(counts)),
                                                       max_weight, steps_))
                  IN  [rest EXCEPT !.font_size = <<size>> \o @]

calculate_cloud(tags_, steps_, distribution_) ==
    IF Len(tags_) > 0
    THEN TagLoop(tags_, 0, Max(Range(tags_)), steps_, distribution_)
    ELSE [status |-> "ok", message |-> "", value |-> 0, font_size |-> <<>>]

----------------------------------------------------------------------------
(* The text functions, applied to every input within the bounds:          *)
(* s -> parse_tag_input(s) -> edit_string_for_tags -> parse_tag_input.     *)

Never == [op |-> "never", value |-> None]
NoOutcome == [status |-> "none", message |-> "", value |-> 0, font_size |-> <<>>]

CloudIdle ==
    /\ tags = <<>> /\ steps = 1 /\ distribution = 1 /\ outcome = NoOutcome
FieldIdle ==
    /\ FORCE_LOWERCASE_TAGS = FALSE /\ pk = FALSE /\ cache = None
    /\ attr = None /\ persisted = <<>> /\ op = "new"
    /\ lastAccess = Never
TextIdle ==
    /\ input = <<>> /\ parsed = <<>> /\ rendered = <<>> /\ reparsed = <<>>

InitText ==
    /\ mode = "text"
    /\ pc = "start"
    /\ input \in Strings(Alphabet, MaxLen)
    /\ parsed = <<>> /\ rendered = <<>> /\ reparsed = <<>>
    /\ CloudIdle /\ FieldIdle

Parse ==
    /\ mode = "text" /\ pc = "start"
    /\ parsed' = parse_tag_input(input)
    /\ pc' = "parsed"
    /\ UNCHANGED <<mode, input, rendered, reparsed, cloudVars, fieldVars>>

Render ==
    /\ mode = "text" /\ pc = "parsed"
    /\ rendered' = edit_string_for_tags(parsed)
    /\ pc' = "rendered"
    /\ UNCHANGED <<mode, input, parsed, reparsed, cloudVars, fieldVars>>

Reparse ==
    /\ mode = "text" /\ pc = "rendered"
    /\ reparsed' = parse_tag_input(rendered)
    /\ pc' = "done"
    /\ UNCHANGED <<mode, input, parsed, rendered, cloudVars, fieldVars>>

NextText == Parse \/ Render \/ Reparse

SpecText == InitText /\ [][NextText]_vars

----------------------------------------------------------------------------
(* The input as an index structure, written without the scanner: the       *)
(* quote-free segments of a string and which of them lie inside a closed   *)
(* pair of double quotes.                                                  *)

\* The number of double quotes among the first k characters.
QuotesBefore(s, k) == Cardinality({j \in 1..k : s[j] = QUOTE})

\* <<lo, hi>>: a maximal run of characters without a double quote
\* (possibly empty), delimited by double quotes or the ends of s.
Segments(s) ==
    {seg \in (1..(Len(s) + 1)) \X (0..Len(s)) :
        /\ seg[2] >= seg[1] - 1
        /\ (seg[1] = 1 \/ s[seg[1] - 1] = QUOTE)
        /\ (seg[2] = Len(s) \/ s[seg[2] + 1] = QUOTE)
        /\ \A k \in seg[1]..seg[2] : s[k] # QUOTE}

Text(s, seg) == SubSeq(s, seg[1], seg[2])

\* Segments between an opening double quote and its matching double quote.
ClosedSpans(s) ==
    {Text(s, seg) : seg \in {g \in Segments(s) :
        QuotesBefore(s, g[1] - 1) % 2 = 1 /\ g[2] < Len(s)}}

\* Segments outside every quote.
LooseChunks(s) ==
    {Text(s, seg) : seg \in {g \in Segments(s) :
        QuotesBefore(s, g[1] - 1) % 2 = 0}}

\* The text after an opening double quote that is never closed.
OpenTail(s) ==
    {Text(s, seg) : seg \in {g \in Segments(s) :
        QuotesBefore(s, g[1] - 1) % 2 = 1 /\ g[2] = Len(s)}}

\* The non-empty trimmed pieces of chunk between occurrences of d.
Tokens(chunk, d) ==
    {Strip(SubSeq(chunk, lo, hi)) : <<lo, hi>> \in
        {r \in (1..(Len(chunk) + 1)) \X (0..Len(chunk)) :
            /\ r[2] >= r[1] - 1
            /\ (r[1] = 1 \/ chunk[r[1] - 1] = d)
            /\ (r[2] = Len(chunk) \/ chunk[r[2] + 1] = d)
            /\ \A k \in r[1]..r[2] : chunk[k] # d}} \ {<<>>}

\* s.split(): the maximal runs of non-whitespace characters.
WhitespaceTokens(s) ==
    {SubSeq(s, r[1], r[2]) : r \in
        {r \in (1..Len(s)) \X (1..Len(s)) :
            /\ r[1] <= r[2]
            /\ \A k \in r[1]..r[2] : s[k] \notin Whitespace
            /\ (r[1] = 1 \/ s[r[1] - 1] \in Whitespace)
            /\ (r[2] = Len(s) \/ s[r[2] + 1] \in Whitespace)}}

QuotedNames(s) == {Strip(span) : span \in ClosedSpans(s)} \ {<<>>}

HasComma(chunks) == \E c \in chunks : Contains(c, COMMA)

\* parse_tag_input has returned and its result has not been used yet.
Called == mode = "text" /\ pc = "parsed"

----------------------------------------------------------------------------
(* Claims on the text functions *)

\* C1: rendering the parsed names with edit_string_for_tags and parsing
\* the result again yields exactly the parsed names.
C1_RoundTrip == (mode = "text" /\ pc = "done") => reparsed = parsed

C1_Witness ==
    /\ mode = "text" /\ pc = "done"
    /\ \E n \in Range(parsed) : Contains(n, SPACE)
    /\ \E n \in Range(parsed) : Contains(n, COMMA)
    /\ Contains(rendered, QUOTE)

\* C2: the result of parse_tag_input is strictly ascending and each of
\* its elements is a non-empty string without leading or trailing
\* whitespace.
C2_SortedUniqueTrimmed ==
    Called =>
        /\ \A k \in 1..(Len(parsed) - 1) : LexLess(parsed[k], parsed[k + 1])
        /\ \A k \in 1..Len(parsed) :
               /\ parsed[k] # <<>>
               /\ parsed[k][1] \notin Whitespace
               /\ parsed[k][Len(parsed[k])] \notin Whitespace

C2_Witness ==
    /\ Called
    /\ QuotesBefore(input, Len(input)) % 2 = 1
    /\ Len(parsed) >= 2
    /\ input[1] \in Whitespace

C4_QuotedSpanIsOneTag ==
    Called =>
        /\ \A span \in ClosedSpans(input) :
               Strip(span) # <<>> => Strip(span) \in Range(parsed)
        /\ \A t \in Range(parsed) :
               \/ t \in QuotedNames(input)
               \/ \E c \in LooseChunks(input) \cup OpenTail(input) :
                      t \in Tokens(c, COMMA) \cup Tokens(c, SPACE)

C4_Witness ==
    /\ Called
    /\ \E span \in ClosedSpans(input) :
           /\ Contains(span, COMMA)
           /\ Strip(span) # span
           /\ Strip(span) \in Range(parsed)
    /\ \E c \in LooseChunks(input) : Tokens(c, SPACE) # {}

\* C5: edit_string_for_tags equals the reference: names with a comma are
\* quoted, the joiner is ", " when a non-quoted name contains whitespace
\* and " " otherwise, and a single name joined in comma mode is quoted.
EditReference(names) ==
    LET pieces == [k \in 1..Len(names) |->
                      IF Contains(names[k], COMMA)
                      THEN Quoted(names[k]) ELSE names[k]]
        comma_mode == \E k \in 1..Len(names) :
                          /\ ~Contains(names[k], COMMA)
                          /\ Range(names[k]) \cap Whitespace # {}
        joined == Join(IF comma_mode THEN <<COMMA, SPACE>> ELSE <<SPACE>>,
                       pieces)
    IN  IF Len(names) = 1 /\ comma_mode THEN Quoted(joined) ELSE joined

C5_EditMatchesReference ==
    (mode = "text" /\ pc \in {"rendered", "done"}) =>
        rendered = EditReference(parsed)

\* C8: with a comma or a double quote in the input, the tags are the
\* trimmed non-blank closed spans and the pieces of every unquoted chunk
\* under one delimiter: the comma if a comma occurs outside the closed
\* spans, otherwise the space.
C8_OneDelimiter ==
    (Called /\ (Contains(input, COMMA) \/ Contains(input, QUOTE))) =>
        LET chunks == LooseChunks(input) \cup OpenTail(input)
            d == IF HasComma(chunks) THEN COMMA ELSE SPACE
        IN  Range(parsed) =
                QuotedNames(input) \cup UNION {Tokens(c, d) : c \in chunks}

C8_Witness ==
    /\ Called
    /\ \E span \in ClosedSpans(input) : Contains(span, COMMA)
    /\ ~HasComma(LooseChunks(input))
    /\ \E c \in LooseChunks(input) :
           Tokens(c, SPACE) # Tokens(c, COMMA) /\ Tokens(c, SPACE) \subseteq Range(parsed)

\* C9 as stated: a comma inside an unterminated quote forces the comma
\* for that text only; the other unquoted chunks keep the delimiter their
\* own commas select.
C9_CommaForcedForTailOnly ==
    (Called /\ OpenTail(input) # {}) =>
        LET loose == LooseChunks(input)
            d == IF HasComma(loose) THEN COMMA ELSE SPACE
            dTail == IF HasComma(OpenTail(input)) THEN COMMA ELSE d
        IN  Range(parsed) =
                QuotedNames(input)
                \cup UNION {Tokens(c, d) : c \in loose}
                \cup UNION {Tokens(c, dTail) : c \in OpenTail(input)}

\* C9 amended: the text after an unterminated quote is unquoted text, and
\* a comma in it selects the comma for every unquoted chunk of the input.
C9_CommaForcedForWholeInput ==
    (Called /\ OpenTail(input) # {}) =>
        LET loose == LooseChunks(input)
            d == IF HasComma(loose) THEN COMMA ELSE SPACE
        IN  IF HasComma(OpenTail(input))
            THEN Range(parsed) =
                     QuotedNames(input) \cup
                     UNION {Tokens(c, COMMA) : c \in loose \cup OpenTail(input)}
            ELSE \A c \in OpenTail(input) : Tokens(c, d) \subseteq Range(parsed)

C9_Witness ==
    /\ Called
    /\ HasComma(OpenTail(input))
    /\ ~HasComma(LooseChunks(input))
    /\ \E c \in LooseChunks(input) :
           Tokens(c, SPACE) # Tokens(c, COMMA) /\ Tokens(c, COMMA) \subseteq Range(parsed)

----------------------------------------------------------------------------
(* calculate_cloud, applied to every argument within the bounds *)

MaxTags == 3
MaxCount == 4
MaxSteps == 3

\* LOGARITHMIC, LINEAR and two values that are neither.
Distributions == 0..3

InitCloud ==
    /\ mode = "cloud"
    /\ pc = "start"
    /\ tags \in Strings(0..MaxCount, MaxTags)
    /\ steps \in 1..MaxSteps
    /\ distribution \in Distributions
    /\ outcome = NoOutcome
    /\ TextIdle /\ FieldIdle

CalculateCloud ==
    /\ mode = "cloud" /\ pc = "start"
    /\ outcome' = calculate_cloud(tags, steps, distribution)
    /\ pc' = "done"
    /\ UNCHANGED <<mode, tags, steps, distribution, textVars, fieldVars>>

NextCloud == CalculateCloud

SpecCloud == InitCloud /\ [][NextCloud]_vars

Returned == mode = "cloud" /\ pc = "done"

\* C6: for a non-empty collection, positive steps and LOGARITHMIC or
\* LINEAR, calculate_cloud completes and every tag has a font_size in
\* 1..steps, namely i + 1 for the smallest i whose threshold is >= the
\* tag's transformed weight.
C6_EveryTagSized ==
    (Returned /\ tags # <<>> /\ distribution \in {LOGARITHMIC, LINEAR}) =>
        /\ outcome.status = "ok"
        /\ Len(outcome.font_size) = Len(tags)
        /\ \A k \in 1..Len(tags) :
               LET size == outcome.font_size[k]
                   w == _calculate_tag_weight(tags[k], Max(Range(tags)),
                                             distribution)
                   t == _calculate_thresholds(Min(Range(tags)),
                                             Max(Range(tags)), steps)
               IN  /\ size \in 1..steps
                   /\ WeightLeq(w, Max(Range(tags)), steps, t[size])
                   /\ \A j \in 1..(size - 1) :
                          ~WeightLeq(w, Max(Range(tags)), steps, t[j])

\* C7: with a distribution that is neither LOGARITHMIC nor LINEAR,
\* calculate_cloud fails with a ValueError naming the value, for every
\* collection that holds a tag (also when its maximum count is 1), and
\* sets no font_size.
C7_InvalidDistributionRaises ==
    (Returned /\ tags # <<>> /\ distribution \notin {LOGARITHMIC, LINEAR}) =>
        /\ outcome.status = "ValueError"
        /\ outcome.message = "Invalid distribution algorithm specified"
        /\ outcome.value = distribution
        /\ \A k \in 1..Len(outcome.font_size) : outcome.font_size[k] = 0

----------------------------------------------------------------------------
(* tagging/fields.py: TagField on one model instance.                      *)
(* The instance starts with no descriptor operation performed on it: new   *)
(* (pk is None, no tags stored) or loaded (pk set, some tags stored).      *)

\* Bounds of the field model: space, 'A', 'a'.
FieldAlphabet == {32, 65, 97}
MaxValueLen == 3

\* The strings assigned to the field.
Values == Strings(FieldAlphabet, MaxValueLen)

\* str.lower()
Lower(s) == [k \in 1..Len(s) |-> IF s[k] \in 65..90 THEN s[k] + 32 ELSE s[k]]

\* Tag.objects.update_tags(instance, tags): the names the instance is
\* tagged with afterwards.
update_tags(tag_names) ==
    LET names == parse_tag_input(tag_names)
    IN  IF FORCE_LOWERCASE_TAGS
        THEN sorted_set([k \in 1..Len(names) |-> Lower(names[k])])
        ELSE names

\* Tag.objects.get_for_object(instance): the instance's tags, by name.
get_for_object == persisted

_get_instance_tag_cache == cache

_set_instance_tag_cache(tags_) ==
    /\ attr' = tags_
    /\ cache' = tags_

InitField ==
    /\ mode = "field"
    /\ pc = "ready"
    /\ FORCE_LOWERCASE_TAGS \in BOOLEAN
    /\ pk \in BOOLEAN
    /\ persisted \in {update_tags(v) : v \in Values}
    /\ (~pk => persisted = <<>>)
    /\ cache = None
    /\ attr = None
    /\ op = "new"
    /\ lastAccess = Never
    /\ TextIdle /\ CloudIdle

\* instance.tags
__get__ ==
    /\ mode = "field"
    /\ IF _get_instance_tag_cache = None
       THEN IF ~pk
            THEN _set_instance_tag_cache(<<>>)
            ELSE _set_instance_tag_cache(edit_string_for_tags(get_for_object))
       ELSE UNCHANGED <<attr, cache>>
    /\ op' = "get"
    /\ lastAccess' = [op |-> "get", value |-> None]
    /\ UNCHANGED <<mode, pc, FORCE_LOWERCASE_TAGS, pk, persisted,
                   textVars, cloudVars>>

\* instance.tags = value
__set__(value) ==
    /\ mode = "field"
    /\ _set_instance_tag_cache(
           IF FORCE_LOWERCASE_TAGS /\ value # None THEN Lower(value) ELSE value)
    /\ op' = "set"
    /\ lastAccess' = [op |-> "set", value |-> value]
    /\ UNCHANGED <<mode, pc, FORCE_LOWERCASE_TAGS, pk, persisted,
                   textVars, cloudVars>>

\* del instance.tags
__delete__ ==
    /\ mode = "field"
    /\ _set_instance_tag_cache(<<>>)
    /\ op' = "delete"
    /\ lastAccess' = [op |-> "delete", value |-> None]
    /\ UNCHANGED <<mode, pc, FORCE_LOWERCASE_TAGS, pk, persisted,
                   textVars, cloudVars>>

\* Mutant: a cache of None is saved as no tags.
SaveNoneAsEmpty ==
    /\ mode = "field"
    /\ persisted' = update_tags(_get_instance_tag_cache)
    /\ pk' = TRUE
    /\ op' = "save"
    /\ UNCHANGED <<mode, pc, FORCE_LOWERCASE_TAGS, cache, attr, lastAccess,
                   textVars, cloudVars>>

\* instance.save(): the row is written (pk is set) and post_save runs _save.
_save ==
    /\ mode = "field"
    /\ IF _get_instance_tag_cache # None
       THEN persisted' = update_tags(_get_instance_tag_cache)
       ELSE UNCHANGED persisted
    /\ pk' = TRUE
    /\ op' = "save"
    /\ UNCHANGED <<mode, pc, FORCE_LOWERCASE_TAGS, cache, attr, lastAccess,
                   textVars, cloudVars>>

NextField ==
    \/ __get__
    \/ \E value \in Values \cup {None} : __set__(value)
    \/ __delete__
    \/ _save

SpecField == InitField /\ [][NextField]_vars

\* C10: a save replaces the persisted tags with those of the cached
\* string exactly when the cache is not None and otherwise leaves them
\* unchanged; no other operation changes the persisted tags (a clearing
\* empties them only at the next save); the cache is None while the field
\* was never read, assigned or cleared or was last assigned None; and
\* after an assignment of v the cache holds v, so that the next save
\* persists the tags of v.
C10_SaveWritesCacheWhenSet ==
    [][mode = "field" =>
        /\ (op' = "save" =>
               persisted' = IF cache # None THEN update_tags(cache)
                            ELSE persisted)
        /\ (op' # "save" => persisted' = persisted)
        /\ (cache' = None <=>
               \/ lastAccess' = Never
               \/ lastAccess' = [op |-> "set", value |-> None])
        /\ (lastAccess'.op = "set" /\ lastAccess'.value # None =>
               update_tags(cache') = update_tags(lastAccess'.value))
        /\ (lastAccess'.op = "delete" => cache' = <<>>)
    ]_vars

C10_Witness ==
    /\ mode = "field"
    /\ op = "save"
    /\ lastAccess.op = "set" /\ lastAccess.value # None
    /\ Len(persisted) >= 2
    /\ persisted = update_tags(lastAccess.value)

----------------------------------------------------------------------------
(* The three APIs together *)

Init == InitText \/ InitCloud \/ InitField

Next == NextText \/ NextCloud \/ NextField

Spec == Init /\ [][Next]_vars

====
